---- MODULE Spec2Model ----
(***************************************************************************)
(* PCR master-mix calculator (src/pcr_calculator.py).                      *)
(*                                                                         *)
(* The calculation is float arithmetic, and the claims are about ties of   *)
(* the rounding rule, so Python floats are modelled as IEEE-754 binary64   *)
(* values: every arithmetic operator computes the exact result and rounds  *)
(* it to 53 significant bits, ties to even.  Mantissas do not fit the      *)
(* model checker's integers and are kept as sequences of limbs.            *)
(***************************************************************************)
EXTENDS Integers, Sequences, FiniteSets, TLC

(***************************************************************************)
(* Natural numbers of arbitrary size: little-endian sequences of limbs in  *)
(* 0 .. Base-1 without leading zero limbs (Python int, float mantissa).    *)
(***************************************************************************)
LimbBits == 14
Base == 2 ^ LimbBits

Tl(a) == IF a = <<>> THEN <<>> ELSE Tail(a)
Limb(a, i) == IF i <= Len(a) THEN a[i] ELSE 0

RECURSIVE BTrim(_)
BTrim(a) ==
    IF a = <<>> THEN <<>>
    ELSE IF a[Len(a)] = 0 THEN BTrim(SubSeq(a, 1, Len(a) - 1))
    ELSE a

RECURSIVE BFromNat(_)
BFromNat(n) == IF n = 0 THEN <<>> ELSE <<n % Base>> \o BFromNat(n \div Base)

\* only for values below 2^31
RECURSIVE BToNat(_)
BToNat(a) == IF a = <<>> THEN 0 ELSE a[1] + Base * BToNat(Tail(a))

RECURSIVE BAddC(_, _, _)
BAddC(a, b, c) ==
    IF a = <<>> /\ b = <<>> THEN (IF c = 0 THEN <<>> ELSE <<c>>)
    ELSE LET s == Limb(a, 1) + Limb(b, 1) + c
         IN  <<s % Base>> \o BAddC(Tl(a), Tl(b), s \div Base)

BAdd(a, b) == BAddC(a, b, 0)

\* a - b for a >= b
RECURSIVE BSubC(_, _, _)
BSubC(a, b, c) ==
    IF a = <<>> THEN <<>>
    ELSE LET d == a[1] - Limb(b, 1) - c
         IN  IF d < 0 THEN <<d + Base>> \o BSubC(Tail(a), Tl(b), 1)
             ELSE <<d>> \o BSubC(Tail(a), Tl(b), 0)

BSub(a, b) == BTrim(BSubC(a, b, 0))

\* -1, 0, 1 as a < b, a = b, a > b
RECURSIVE BCmp(_, _)
BCmp(a, b) ==
    IF Len(a) # Len(b) THEN (IF Len(a) < Len(b) THEN -1 ELSE 1)
    ELSE IF a = <<>> THEN 0
    ELSE IF a[Len(a)] # b[Len(b)] THEN (IF a[Len(a)] < b[Len(b)] THEN -1 ELSE 1)
    ELSE BCmp(SubSeq(a, 1, Len(a) - 1), SubSeq(b, 1, Len(b) - 1))

\* a * d + c for a small d (d <= 2^16)
RECURSIVE BMulSmallC(_, _, _)
BMulSmallC(a, d, c) ==
    IF a = <<>> THEN BFromNat(c)
    ELSE LET s == a[1] * d + c
         IN  <<s % Base>> \o BMulSmallC(Tail(a), d, s \div Base)

BMulSmall(a, d) == BTrim(BMulSmallC(a, d, 0))

RECURSIVE BMul(_, _)
BMul(a, b) ==
    IF a = <<>> \/ b = <<>> THEN <<>>
    ELSE LET rest == BMul(a, Tail(b))
         IN  BAdd(BMulSmall(a, b[1]), IF rest = <<>> THEN <<>> ELSE <<0>> \o rest)

\* quotient and remainder of a by a small d (0 < d <= 2^16)
RECURSIVE BDivSmall(_, _)
BDivSmall(a, d) ==
    IF a = <<>> THEN [q |-> <<>>, r |-> 0]
    ELSE LET h   == BDivSmall(Tail(a), d)
             cur == h.r * Base + a[1]
         IN  [q |-> BTrim(<<cur \div d>> \o h.q), r |-> cur % d]

Zeros(k) == [i \in 1..k |-> 0]

BShl(a, k) ==
    IF a = <<>> THEN <<>>
    ELSE Zeros(k \div LimbBits) \o BMulSmall(a, 2 ^ (k % LimbBits))

BShr(a, k) ==
    LET w == k \div LimbBits
    IN  IF w >= Len(a) THEN <<>>
        ELSE BDivSmall(SubSeq(a, w + 1, Len(a)), 2 ^ (k % LimbBits)).q

RECURSIVE NatBitLen(_)
NatBitLen(n) == IF n = 0 THEN 0 ELSE 1 + NatBitLen(n \div 2)

BBitLen(a) == IF a = <<>> THEN 0 ELSE LimbBits * (Len(a) - 1) + NatBitLen(a[Len(a)])

BOdd(a) == a # <<>> /\ a[1] % 2 = 1

\* number of trailing zero bits of a nonzero a
RECURSIVE BTrailingZeros(_)
BTrailingZeros(a) ==
    IF a[1] = 0 THEN LimbBits + BTrailingZeros(Tail(a))
    ELSE IF a[1] % 2 = 1 THEN 0
    ELSE 1 + BTrailingZeros(<<a[1] \div 2>>)

\* floor(a / 2^k), the next bit below it, and whether any lower bit is set
BPartsFrom(a, k, q1) ==
    [q      |-> BShr(q1, 1),
     half   |-> BOdd(q1),
     sticky |-> BShl(q1, k - 1) # a]

BShrParts(a, k) ==
    IF k = 0 THEN [q |-> a, half |-> FALSE, sticky |-> FALSE]
    ELSE BPartsFrom(a, k, BShr(a, k - 1))

\* a / 2^k rounded to an integer, ties to the even one
BHalfEven(p) == IF p.half /\ (p.sticky \/ BOdd(p.q)) THEN BAdd(p.q, <<1>>) ELSE p.q

BShrHalfEven(a, k) == BHalfEven(BShrParts(a, k))

(***************************************************************************)
(* Python float: kind "fin" is sign * man * 2^exp with man odd (zero is    *)
(* man = <<>>, exp = 0), kind "inf" a signed infinity, kind "nan" a NaN.   *)
(* The exponent range of binary64 is not modelled: no finite value of the  *)
(* model comes near 2^1024 or 2^-1022; inf enters only as an input.        *)
(***************************************************************************)
MantBits == 53
DivShift == 72

FZero == [kind |-> "fin", sign |-> 1, man |-> <<>>, exp |-> 0]
FInf(s) == [kind |-> "inf", sign |-> s, man |-> <<>>, exp |-> 0]
FNaN == [kind |-> "nan", sign |-> 1, man |-> <<>>, exp |-> 0]

FStrip(s, m, e, tz) == [kind |-> "fin", sign |-> s, man |-> BShr(m, tz), exp |-> e + tz]

FCanon(s, m, e) == IF m = <<>> THEN FZero ELSE FStrip(s, m, e, BTrailingZeros(m))

\* the exact value s * m * 2^e rounded to 53 significant bits, ties to even
FRoundBits(s, m, e, bl) ==
    FCanon(s,
           IF bl <= MantBits THEN m ELSE BShrHalfEven(m, bl - MantBits),
           IF bl <= MantBits THEN e ELSE e + (bl - MantBits))

FRound(s, m, e) == FRoundBits(s, m, e, BBitLen(m))

Abs(i) == IF i < 0 THEN -i ELSE i
Sgn(i) == IF i < 0 THEN -1 ELSE 1

\* float(i) for a Python int i of small magnitude
FFromInt(i) == FCanon(Sgn(i), BFromNat(Abs(i)), 0)
\* the float h / 2, the value of a decimal literal with at most a final ".5"
FFromHalves(h) == FCanon(Sgn(h), BFromNat(Abs(h)), -1)

FIsZero(a) == a.kind = "fin" /\ a.man = <<>>
FNeg(a) == IF FIsZero(a) \/ a.kind = "nan" THEN a ELSE [a EXCEPT !.sign = -a.sign]

FMul(a, b) ==
    IF a.kind = "nan" \/ b.kind = "nan" THEN FNaN
    ELSE IF a.kind = "inf" \/ b.kind = "inf"
         THEN (IF FIsZero(a) \/ FIsZero(b) THEN FNaN ELSE FInf(a.sign * b.sign))
    ELSE FRound(a.sign * b.sign, BMul(a.man, b.man), a.exp + b.exp)

\* the exact sum of two finite floats, not rounded
XAligned(sa, ma, sb, mb, e) ==
    IF sa = sb THEN [sign |-> sa, man |-> BAdd(ma, mb), exp |-> e]
    ELSE IF BCmp(ma, mb) >= 0 THEN [sign |-> sa, man |-> BSub(ma, mb), exp |-> e]
    ELSE [sign |-> sb, man |-> BSub(mb, ma), exp |-> e]

XSumAt(a, b, e) ==
    XAligned(a.sign, BShl(a.man, a.exp - e), b.sign, BShl(b.man, b.exp - e), e)

XSum(a, b) == XSumAt(a, b, IF a.exp < b.exp THEN a.exp ELSE b.exp)

FRoundOf(x) == FRound(x.sign, x.man, x.exp)

FAdd(a, b) ==
    IF a.kind = "nan" \/ b.kind = "nan" THEN FNaN
    ELSE IF a.kind = "inf"
         THEN (IF b.kind = "inf" /\ b.sign # a.sign THEN FNaN ELSE a)
    ELSE IF b.kind = "inf" THEN b
    ELSE FRoundOf(XSum(a, b))

FSub(a, b) == FAdd(a, FNeg(b))

\* a / b for a finite nonzero b whose mantissa fits a limb: the program
\* divides by mix_x, by 100.0 and by 2.0 only
FQuotient(s, dv, e) ==
    FRound(s, BAdd(BShl(dv.q, 1), IF dv.r # 0 THEN <<1>> ELSE <<>>), e)

FDiv(a, b) ==
    IF a.kind = "nan" THEN FNaN
    ELSE IF a.kind = "inf" THEN FInf(a.sign * b.sign)
    ELSE IF FIsZero(a) THEN FZero
    ELSE FQuotient(a.sign * b.sign,
                   BDivSmall(BShl(a.man, DivShift), BToNat(b.man)),
                   a.exp - b.exp - DivShift - 1)

\* a < b
FNegative(d) == d.kind # "nan" /\ ~FIsZero(d) /\ d.sign = -1
FLt(a, b) == FNegative(FSub(a, b))

FLe(a, b) == a = b \/ FLt(a, b)

\* Python int of arbitrary size: sign and magnitude
PyInt(s, m) == [sign |-> IF m = <<>> THEN 1 ELSE s, mag |-> m]

\* variant: ties go up (floor(x + 0.5)) instead of to the even int
PyRoundHalfUp(x) ==
    IF x.exp >= 0 THEN PyInt(x.sign, BShl(x.man, x.exp))
    ELSE LET p == BShrParts(x.man, -x.exp)
         IN  IF x.sign = 1
             THEN PyInt(1, IF p.half THEN BAdd(p.q, <<1>>) ELSE p.q)
             ELSE PyInt(-1, IF p.half /\ p.sticky THEN BAdd(p.q, <<1>>) ELSE p.q)

\* builtin round(x) of a finite float: the nearest int, ties to the even one
PyRound(x) ==
    IF x.exp >= 0 THEN PyInt(x.sign, BShl(x.man, x.exp))
    ELSE PyInt(x.sign, BShrHalfEven(x.man, -x.exp))

\* the exception round(x) raises for a float that is not finite, "" if none
PyRoundRaises(x) ==
    IF x.kind = "nan" THEN "ValueError"
    ELSE IF x.kind = "inf" THEN "OverflowError"
    ELSE ""

PyRoundMessage(x) ==
    IF x.kind = "nan" THEN "cannot convert float NaN to integer"
    ELSE "cannot convert float infinity to integer"

\* float(i) for a Python int
FFromPyInt(i) == FRound(i.sign, i.mag, 0)

(***************************************************************************)
(* Configuration constants                                                 *)
(***************************************************************************)
PER_SAMPLE_TOTAL == FFromInt(11)
PRIMER_PER == FFromHalves(1)
DEFAULT_EXCESS == FFromInt(10)
DEFAULT_SAMPLES == 8

(***************************************************************************)
(* PCRLogic                                                                *)
(***************************************************************************)
\* variant: rounds to the nearest whole number, the doubling left out
round_to_whole(x) == FFromPyInt(PyRound(x))

round_to_half(x) == FDiv(FFromPyInt(PyRound(FMul(x, FFromInt(2)))), FFromInt(2))

\* a dict is the sequence of its items in insertion order; the key
\* f"Mix ({mix_x}X)" is the record [name |-> "Mix", x |-> mix_x]
Key(name) == [name |-> name, x |-> 0]
MixKey(mix_x) == [name |-> "Mix", x |-> mix_x]
Item(k, v) == [k |-> k, v |-> v]

\* sum(d.values()): 0 + v1 + v2 + ... from left to right
RECURSIVE SumValues(_)
SumValues(d) ==
    IF d = <<>> THEN FZero
    ELSE FAdd(SumValues(SubSeq(d, 1, Len(d) - 1)), d[Len(d)].v)

\* what a call of calculate produces: a returned tuple or a raised exception
Returned(per, tot, grand) ==
    [ok |-> TRUE, exc |-> "", err |-> "", per |-> per, tot |-> tot, grand |-> grand]
Raised(exc, msg) ==
    [ok |-> FALSE, exc |-> exc, err |-> msg, per |-> <<>>, tot |-> <<>>, grand |-> FZero]

MixError == "Mix concentration must be 2 or 5."
DDWError == "Computed DDW volume is negative."

\* variant: only an upper limit on the mix concentration
ValidMixUpTo5(mix_x) == mix_x <= 5

\* line 26: the supported mix concentrations
ValidMix(mix_x) == mix_x \in {2, 5}

\* line 31
MixVol(mix_x) == FMul(FFromInt(6), FDiv(FFromInt(2), FFromInt(mix_x)))

\* variant: operands of the subtraction exchanged
DDWVolSwapped(mix_vol, primers_total) == FSub(FAdd(mix_vol, primers_total), PER_SAMPLE_TOTAL)

\* line 33
DDWVol(mix_vol, primers_total) == FSub(PER_SAMPLE_TOTAL, FAdd(mix_vol, primers_total))

\* variant: the percentage not divided by 100
FactorNoPercent(excess_percent) == FAdd(FFromInt(1), excess_percent)

\* line 46
Factor(excess_percent) == FAdd(FFromInt(1), FDiv(excess_percent, FFromInt(100)))

\* line 48: v * n_samples * factor of one ingredient
ScaledRaw(v, n_samples, factor) == FMul(FMul(v, FFromInt(n_samples)), factor)

\* variant: the last ingredient left out of the sum
GrandTotalShort(totals) == SumValues(SubSeq(totals, 1, Len(totals) - 1))

\* line 50
GrandTotal(totals) == SumValues(totals)

\* lines 38-43
PerSample(mix_x, mix_vol, ddw_vol) ==
    << Item(Key("DDW"), ddw_vol),
       Item(MixKey(mix_x), mix_vol),
       Item(Key("Primer Fwd"), PRIMER_PER),
       Item(Key("Primer Rev"), PRIMER_PER) >>

\* line 48: the products before rounding, in the order of per_sample
Raws(per_sample, n_samples, factor) ==
    [i \in 1..Len(per_sample) |-> ScaledRaw(per_sample[i].v, n_samples, factor)]

\* line 48: the ingredients whose round() raises
BadRaws(raws) == {i \in 1..Len(raws) : PyRoundRaises(FMul(raws[i], FFromInt(2))) # ""}
First(S) == CHOOSE i \in S : \A j \in S : i <= j
RoundError(x) == Raised(PyRoundRaises(x), PyRoundMessage(x))

\* lines 48-52
Totals(per_sample, raws) ==
    [i \in 1..Len(per_sample) |-> Item(per_sample[i].k, round_to_half(raws[i]))]
ReturnTotals(per_sample, totals) == Returned(per_sample, totals, GrandTotal(totals))

RoundAll(per_sample, raws, bad) ==
    IF bad # {} THEN RoundError(FMul(raws[First(bad)], FFromInt(2)))
    ELSE ReturnTotals(per_sample, Totals(per_sample, raws))

\* lines 46-52
ScaleAll(per_sample, raws) == RoundAll(per_sample, raws, BadRaws(raws))

\* lines 35-52
CheckAndScale(n_samples, excess_percent, mix_x, mix_vol, ddw_vol) ==
    IF FLt(ddw_vol, FZero) THEN Raised("ValueError", DDWError)
    ELSE ScaleAll(PerSample(mix_x, mix_vol, ddw_vol),
                  Raws(PerSample(mix_x, mix_vol, ddw_vol), n_samples,
                       Factor(excess_percent)))

\* lines 32-52
WithMixVol(n_samples, excess_percent, mix_x, mix_vol) ==
    CheckAndScale(n_samples, excess_percent, mix_x, mix_vol,
                  DDWVol(mix_vol, FMul(FFromInt(2), PRIMER_PER)))

calculate(n_samples, excess_percent, mix_x) ==
    IF ~ValidMix(mix_x) THEN Raised("ValueError", MixError)
    ELSE IF mix_x = 0 THEN Raised("ZeroDivisionError", "float division by zero")
    ELSE WithMixVol(n_samples, excess_percent, mix_x, MixVol(mix_x))

\* f"{x:.1f}" of a finite float: the decimal with one fractional digit nearest
\* to the exact value, as a signed count of tenths (field widths and the
\* unit suffix are layout and not modelled)
Tenths(x, m10) ==
    x.sign * BToNat(IF x.exp >= 0 THEN BShl(m10, x.exp) ELSE BShrHalfEven(m10, -x.exp))
Fmt1(x) == Tenths(x, BMulSmall(x.man, 10))

\* d[k] of a dict
Lookup(d, k) == d[CHOOSE i \in 1..Len(d) : d[i].k = k].v

Row(name, per, mm) == [line |-> "row", name |-> name, per |-> per, mm |-> mm]
Rule(ch) == [line |-> "rule", ch |-> ch, width |-> 50]

\* variant: the two volume columns exchanged
ReportRowSwapped(k, v, tot) == Row(k, Fmt1(Lookup(tot, k)), Fmt1(v))

\* line 63: the row of ingredient k with per-sample volume v
ReportRow(k, v, tot) == Row(k, Fmt1(v), Fmt1(Lookup(tot, k)))

format_text_report(n, exc, mx, per, tot, grand) ==
    << [line |-> "title", n |-> n, exc |-> exc, mx |-> mx],
       Rule("="),
       [line |-> "columns", c1 |-> "INGREDIENT", c2 |-> "PER SAMPLE", c3 |-> "MASTER MIX"],
       Rule("-") >>
    \o [i \in 1..Len(per) |-> ReportRow(per[i].k, per[i].v, tot)]
    \o << Rule("-"),
          Row(Key("TOTAL VOLUME"), Fmt1(PER_SAMPLE_TOTAL), Fmt1(grand)) >>

(***************************************************************************)
(* State                                                                   *)
(***************************************************************************)
VARIABLES
    call,        \* arguments of a direct call of PCRLogic.calculate
    calc_pc,     \* "call", "returned", "raised", "reported"
    result,      \* what the call produced
    report,      \* text of format_text_report for the result
    raw,         \* argument of a direct call of PCRLogic.round_to_half
    round_pc,    \* "call", "done"
    rounded,     \* its return value
    argv,        \* command line: the text given to each option
    answers,     \* lines typed at the three prompts of the interactive mode
    cli_pc,      \* "main", "parsed", "exited", "gui"
    args,        \* namespace returned by parse_args
    stdout,      \* what the run printed, in order
    exit_status, \* exit status of the process, -1 while it runs
    var_samples, \* text of the samples field (tk.IntVar)
    var_excess,  \* text of the excess field (tk.DoubleVar)
    var_mix,     \* mix factor N of the selection "NX" (tk.StringVar)
    save_path,   \* PCRGui.save_path
    tree,        \* rows of the results table
    lbl_grand_total, \* text and colour of the grand-total label
    lbl_status,  \* text of the status label
    current_report,  \* PCRGui.current_report, <<>> while the attribute is not set
    clipboard,   \* content of the system clipboard
    files        \* content of the file written by a save, <<>> if none

calcVars == <<call, calc_pc, result, report>>
roundVars == <<raw, round_pc, rounded>>
cliVars == <<argv, answers, cli_pc, args, stdout, exit_status>>
guiVars == <<var_samples, var_excess, var_mix, save_path, tree, lbl_grand_total,
             lbl_status, current_report, clipboard>>
vars == <<calcVars, roundVars, cliVars, guiVars, files>>

\* bounds of the inputs
MaxSamples == 8
MaxExcessHalves == 50
MaxMix == 6
MaxRawNum == 60

Samples == -1 .. MaxSamples
\* excess percentages: multiples of 0.5 from -1.0 up, and float("inf")
Excesses == {FFromHalves(h) : h \in -2 .. MaxExcessHalves} \cup {FInf(1)}
Mixes == 0 .. MaxMix
\* j / 10.0 and j / 16.0
RawInputs == {FDiv(FFromInt(j), FFromInt(d)) : j \in 0 .. MaxRawNum, d \in {10, 16}}

(***************************************************************************)
(* Text typed by the user: on the command line, at a prompt, in a field.   *)
(* form "absent" is an option not given or an empty line, "int" the        *)
(* decimal integer v, "half" the decimal v / 2 written with a fraction     *)
(* ("2.5", "10.0"), "inf" and "nan" those words, "bad" any other text.     *)
(***************************************************************************)
Tok(form, v) == [form |-> form, v |-> v]
Absent == Tok("absent", 0)
BadText == Tok("bad", 0)
InfText == Tok("inf", 0)

\* int(text): the value, or <<>> for a ValueError
ParseInt(t) == IF t.form = "int" THEN <<t.v>> ELSE <<>>

\* float(text): the value, or <<>> for a ValueError
ParseFloat(t) ==
    IF t.form = "int" THEN <<FFromInt(t.v)>>
    ELSE IF t.form = "half" THEN <<FFromHalves(t.v)>>
    ELSE IF t.form = "inf" THEN <<FInf(1)>>
    ELSE IF t.form = "nan" THEN <<FNaN>>
    ELSE <<>>

\* bounds of the inputs of the command line and of the form
MaxCliSamples == 2
MaxGuiSamples == 1

NoArgs == [samples |-> <<>>, excess |-> FZero, mix |-> 0, save |-> "", no_gui |-> FALSE]
CliIdle ==
    /\ argv = [samples |-> Absent, excess |-> Absent, mix |-> Absent,
               save |-> "", no_gui |-> FALSE]
    /\ answers = <<Absent, Absent, Absent>>
    /\ cli_pc = "idle" /\ args = NoArgs /\ stdout = <<>> /\ exit_status = -1
GuiIdle ==
    /\ var_samples = Absent /\ var_excess = Absent /\ var_mix = 0 /\ save_path = ""
    /\ tree = <<>> /\ lbl_grand_total = [text |-> "---", tenths |-> 0, foreground |-> ""]
    /\ lbl_status = "" /\ current_report = <<>> /\ clipboard = <<>>
NoFiles == files = <<>>

NotCalled == Raised("", "")

CalcIdle == call = [n |-> 0, exc |-> FZero, mx |-> 0] /\ calc_pc = "idle"
            /\ result = NotCalled /\ report = <<>>
RoundIdle == raw = FZero /\ round_pc = "idle" /\ rounded = FZero

(***************************************************************************)
(* Direct calls of PCRLogic.calculate and PCRLogic.format_text_report      *)
(***************************************************************************)
InitCalc ==
    /\ call \in [n : Samples, exc : Excesses, mx : Mixes]
    /\ calc_pc = "call"
    /\ result = NotCalled
    /\ report = <<>>
    /\ RoundIdle /\ CliIdle /\ GuiIdle /\ NoFiles

Calculate ==
    /\ calc_pc = "call"
    /\ result' = calculate(call.n, call.exc, call.mx)
    /\ calc_pc' = IF result'.ok THEN "returned" ELSE "raised"
    /\ UNCHANGED <<call, report, roundVars, cliVars, guiVars, files>>

FormatReport ==
    /\ calc_pc = "returned"
    /\ report' = format_text_report(call.n, call.exc, call.mx,
                                    result.per, result.tot, result.grand)
    /\ calc_pc' = "reported"
    /\ UNCHANGED <<call, result, roundVars, cliVars, guiVars, files>>

NextCalc == Calculate \/ FormatReport
SpecCalc == InitCalc /\ [][NextCalc]_vars

(***************************************************************************)
(* Direct calls of PCRLogic.round_to_half                                  *)
(***************************************************************************)
InitRound ==
    /\ raw \in RawInputs
    /\ round_pc = "call"
    /\ rounded = FZero
    /\ CalcIdle /\ CliIdle /\ GuiIdle /\ NoFiles

RoundToHalf ==
    /\ round_pc = "call"
    /\ rounded' = round_to_half(raw)
    /\ round_pc' = "done"
    /\ UNCHANGED <<raw, calcVars, cliVars, guiVars, files>>

NextRound == RoundToHalf
SpecRound == InitRound /\ [][NextRound]_vars

(***************************************************************************)
(* Command line: main and run_cli_mode                                     *)
(***************************************************************************)
CliSampleToks == {Absent, BadText} \cup {Tok("int", n) : n \in -1 .. MaxCliSamples}
CliExcessToks == {Absent, BadText, InfText, Tok("half", -1), Tok("int", 0),
                  Tok("int", 10), Tok("half", 5)}
CliMixToks == {Absent, BadText, Tok("int", 2), Tok("int", 3), Tok("int", 5)}
\* no file, a writable path, a path that cannot be opened for writing
SavePaths == {"", "report.txt", "/missing/report.txt"}
Writable(path) == path = "report.txt"

\* the prompts are read only when -n is not given, and then -e and -m are unused
InitCli ==
    /\ argv \in [samples : CliSampleToks, excess : CliExcessToks, mix : CliMixToks,
                 save : SavePaths, no_gui : BOOLEAN]
    /\ answers \in [1..3 -> CliSampleToks \cup CliExcessToks \cup CliMixToks]
    /\ answers[1] \in CliSampleToks /\ answers[2] \in CliExcessToks
    /\ answers[3] \in CliMixToks
    /\ \/ argv.samples = Absent /\ argv.excess = Absent /\ argv.mix = Absent
       \/ argv.samples # Absent /\ answers = <<Absent, Absent, Absent>>
    /\ cli_pc = "main" /\ args = NoArgs /\ stdout = <<>> /\ exit_status = -1
    /\ CalcIdle /\ RoundIdle /\ GuiIdle /\ NoFiles

\* argparse rejects the command line: usage message, exit status 2
ArgparseRejects ==
    \/ argv.samples # Absent /\ ParseInt(argv.samples) = <<>>
    \/ argv.excess # Absent /\ ParseFloat(argv.excess) = <<>>
    \/ argv.mix # Absent /\ (ParseInt(argv.mix) = <<>> \/ ParseInt(argv.mix)[1] \notin {2, 5})

\* main, lines 263-270: parser.parse_args()
ParseArgs ==
    /\ cli_pc = "main"
    /\ IF ArgparseRejects
       THEN /\ cli_pc' = "exited" /\ exit_status' = 2
            /\ stdout' = Append(stdout, [out |-> "usage", text |-> <<>>])
            /\ UNCHANGED args
       ELSE /\ cli_pc' = "parsed"
            /\ args' = [samples |-> ParseInt(argv.samples),
                        excess  |-> IF argv.excess = Absent THEN DEFAULT_EXCESS
                                    ELSE ParseFloat(argv.excess)[1],
                        mix     |-> IF argv.mix = Absent THEN 2 ELSE ParseInt(argv.mix)[1],
                        save    |-> argv.save,
                        no_gui  |-> argv.no_gui]
            /\ UNCHANGED <<stdout, exit_status>>
    /\ UNCHANGED <<argv, answers, calcVars, roundVars, guiVars, files>>

ErrorLine(e) == [out |-> "Error", text |-> e]

\* lines 234-247: the values passed to calculate, or the exception raised by
\* a conversion of an answer
CliInputs ==
    IF args.samples = <<>>
    THEN LET s_in == answers[1]
             e_in == answers[2]
             m_in == answers[3]
         IN  IF s_in # Absent /\ ParseInt(s_in) = <<>>
             THEN [ok |-> FALSE, err |-> "invalid literal for int()"]
             ELSE IF e_in # Absent /\ ParseFloat(e_in) = <<>>
             THEN [ok |-> FALSE, err |-> "could not convert string to float"]
             ELSE IF m_in # Absent /\ ParseInt(m_in) = <<>>
             THEN [ok |-> FALSE, err |-> "invalid literal for int()"]
             ELSE [ok |-> TRUE,
                   n   |-> IF s_in # Absent THEN ParseInt(s_in)[1] ELSE DEFAULT_SAMPLES,
                   exc |-> IF e_in # Absent THEN ParseFloat(e_in)[1] ELSE DEFAULT_EXCESS,
                   mx  |-> IF m_in # Absent THEN ParseInt(m_in)[1] ELSE 2]
    ELSE [ok |-> TRUE, n |-> args.samples[1], exc |-> args.excess, mx |-> args.mix]

ReportLine(rep) == [out |-> "report", text |-> rep]
Exit(out, status, written) == [stdout |-> out, exit_status |-> status, files |-> written]

\* lines 251-256: the report is printed, then written when -s is given
PrintAndSave(out, rep) ==
    IF args.save = "" THEN Exit(Append(out, ReportLine(rep)), 0, files)
    ELSE IF Writable(args.save)
    THEN Exit(Append(out, ReportLine(rep)) \o <<[out |-> "Saved", text |-> <<>>]>>, 0, rep)
    ELSE Exit(Append(out, ReportLine(rep)) \o <<ErrorLine("No such file or directory")>>,
              1, files)

\* lines 249-250 and 258-260, r being what calculate returned or raised
ReportOrError(out, in, r) ==
    IF ~r.ok THEN Exit(Append(out, ErrorLine(r.err)), 1, files)
    ELSE PrintAndSave(out, format_text_report(in.n, in.exc, in.mx, r.per, r.tot, r.grand))

\* lines 233-260 for the inputs in
CalculateAndReport(out, in) ==
    IF ~in.ok THEN Exit(Append(out, ErrorLine(in.err)), 1, files)
    ELSE ReportOrError(out, in, calculate(in.n, in.exc, in.mx))

Banner == IF args.samples = <<>> THEN <<[out |-> "banner", text |-> <<>>]>> ELSE <<>>
run_cli_mode == CalculateAndReport(stdout \o Banner, CliInputs)

\* main, lines 279-280, and run_cli_mode
RunCliMode ==
    /\ cli_pc = "parsed" /\ args.no_gui
    /\ cli_pc' = "exited"
    /\ \E done \in {run_cli_mode} :
          /\ stdout' = done.stdout
          /\ exit_status' = done.exit_status
          /\ files' = done.files
    /\ UNCHANGED <<argv, answers, args, calcVars, roundVars, guiVars>>

\* main, lines 281-290: the form is started instead
StartGui ==
    /\ cli_pc = "parsed" /\ ~args.no_gui
    /\ cli_pc' = "gui"
    /\ UNCHANGED <<argv, answers, args, stdout, exit_status, calcVars, roundVars,
                   guiVars, files>>

NextCli == ParseArgs \/ RunCliMode \/ StartGui
SpecCli == InitCli /\ [][NextCli]_vars

(***************************************************************************)
(* The form: PCRGui                                                        *)
(***************************************************************************)
InvalidInputLabel == [text |-> "Invalid Input", tenths |-> 0, foreground |-> "red"]
TotalLabel(grand) == [text |-> "total", tenths |-> Fmt1(grand), foreground |-> "#0055aa"]
CheckInputsStatus == "Please check your input values."

\* tk.IntVar.get(): getint(text), else int(getdouble(text)); <<>> for an exception
IntVarGet(t) ==
    IF t.form = "int" THEN <<t.v>>
    ELSE IF t.form = "half" THEN <<Sgn(t.v) * (Abs(t.v) \div 2)>>
    ELSE <<>>

\* tk.DoubleVar.get(): getdouble(text), which rejects NaN; <<>> for an exception
DoubleVarGet(t) == IF t.form = "nan" THEN <<>> ELSE ParseFloat(t)

\* get_inputs: <<n, e, m>>, or <<>> for None
get_inputs(samples, excess, mix) ==
    LET n == IntVarGet(samples)
        e == DoubleVarGet(excess)
    IN  IF n = <<>> \/ e = <<>> THEN <<>>
        ELSE IF n[1] < 1 THEN <<>>
        ELSE IF FLt(e[1], FZero) THEN <<>>
        ELSE <<n[1], e[1], mix>>

TreeRow(k, per, tot) == [k |-> k, per |-> Fmt1(per), tot |-> Fmt1(tot)]

GuiSampleToks == {BadText, Tok("half", 3)} \cup {Tok("int", n) : n \in 0 .. MaxGuiSamples}
GuiExcessToks == {BadText, InfText, Tok("half", -1), Tok("int", 0), Tok("int", 10)}
GuiMixes == {2, 5}

\* PCRLogic.calculate and PCRLogic.format_text_report on every <<n, e, m>> that
\* get_inputs can return for these field contents, evaluated once
FormInputs ==
    {get_inputs(s, e, m) : s \in GuiSampleToks, e \in GuiExcessToks, m \in GuiMixes}
        \ {<<>>}
Outcome(in, r) ==
    [r |-> r,
     text |-> IF r.ok
              THEN format_text_report(in[1], in[2], in[3], r.per, r.tot, r.grand)
              ELSE <<>>]
Calculated == [in \in FormInputs |-> Outcome(in, calculate(in[1], in[2], in[3]))]

Display(rows, grand, status, text) ==
    [tree |-> rows, grand |-> grand, status |-> status, report |-> text]

\* update_calc, lines 187-204, c being the outcome of calculate and
\* format_text_report for the inputs
ShowOutcome(c, grand_before, status_before, report_before) ==
    IF c.r.ok
    THEN Display([i \in 1..Len(c.r.per) |->
                     TreeRow(c.r.per[i].k, c.r.per[i].v, Lookup(c.r.tot, c.r.per[i].k))],
                 TotalLabel(c.r.grand), "", c.text)
    ELSE IF c.r.exc = "ValueError"
    THEN Display(<<>>, grand_before, c.r.err, report_before)
    ELSE Display(<<>>, grand_before, status_before, report_before)

\* update_calc, lines 178-204, for what get_inputs returned
UpdateFor(inputs, grand_before, status_before, report_before) ==
    IF inputs = <<>>
    THEN Display(<<>>, InvalidInputLabel, CheckInputsStatus, report_before)
    ELSE ShowOutcome(Calculated[inputs], grand_before, status_before, report_before)

\* update_calc for the given field contents: the widgets and the stored
\* report after it, from what they were before it
update_calc(samples, excess, mix, grand_before, status_before, report_before) ==
    UpdateFor(get_inputs(samples, excess, mix), grand_before, status_before,
              report_before)

\* PCRGui.__init__ with the defaults main passes: the state after the
\* initial update_calc
InitGui ==
    /\ var_samples \in {Tok("int", n) : n \in 1 .. MaxGuiSamples}
    /\ var_excess \in {Tok("int", 0), Tok("int", 10)}
    /\ var_mix \in GuiMixes
    /\ save_path \in {"", "report.txt"}
    /\ \E u \in {update_calc(var_samples, var_excess, var_mix,
                             [text |-> "---", tenths |-> 0, foreground |-> "#0055aa"],
                             "", <<>>)} :
           /\ tree = u.tree /\ lbl_grand_total = u.grand
           /\ lbl_status = u.status /\ current_report = u.report
    /\ clipboard = <<>>
    /\ CalcIdle /\ RoundIdle /\ CliIdle /\ NoFiles

\* a write of one of the three variables, and the update_calc it triggers
Changed(samples, excess, mix) ==
    /\ var_samples' = samples /\ var_excess' = excess /\ var_mix' = mix
    /\ \E u \in {update_calc(samples, excess, mix, lbl_grand_total, lbl_status,
                             current_report)} :
          /\ tree' = u.tree /\ lbl_grand_total' = u.grand
          /\ lbl_status' = u.status /\ current_report' = u.report
    /\ UNCHANGED <<save_path, clipboard, files, calcVars, roundVars, cliVars>>

EditSamples == \E t \in GuiSampleToks : Changed(t, var_excess, var_mix)
EditExcess == \E t \in GuiExcessToks : Changed(var_samples, t, var_mix)
SelectMix == \E m \in GuiMixes : Changed(var_samples, var_excess, m)

copy_to_clipboard ==
    /\ current_report # <<>>
    /\ clipboard' = current_report
    /\ UNCHANGED <<var_samples, var_excess, var_mix, save_path, tree, lbl_grand_total,
                   lbl_status, current_report, files, calcVars, roundVars, cliVars>>

\* save_report: the path is save_path or the one chosen in the dialog ("" when
\* the dialog is cancelled); a failed write leaves the file as it was
save_report ==
    /\ current_report # <<>>
    /\ \E chosen \in SavePaths :
          LET path == IF save_path # "" THEN save_path ELSE chosen
          IN  IF path # "" /\ Writable(path)
              THEN files' = current_report
              ELSE UNCHANGED files
    /\ UNCHANGED <<guiVars, calcVars, roundVars, cliVars>>

NextGui == EditSamples \/ EditExcess \/ SelectMix \/ copy_to_clipboard \/ save_report
SpecGui == InitGui /\ [][NextGui]_vars

(***************************************************************************)
(* Properties of the calculation engine                                    *)
(***************************************************************************)
\* x as a count of half microlitres, for a finite multiple of 0.5
Halves(x) == LET i == PyRound(FMul(x, FFromInt(2))) IN i.sign * BToNat(i.mag)
IsHalfMultiple(x) == x.kind = "fin" /\ (FIsZero(x) \/ x.exp >= -1)
IsWhole(x) == x.kind = "fin" /\ (FIsZero(x) \/ x.exp >= 0)
NonNegative(x) == x.kind = "fin" /\ x.sign = 1

\* m1 * 2^e1 compared with m2 * 2^e2: -1, 0, 1
CmpScaled(m1, e1, m2, e2) ==
    LET lo == IF e1 < e2 THEN e1 ELSE e2
    IN  BCmp(BShl(m1, e1 - lo), BShl(m2, e2 - lo))

\* |a - b| compared with 1/4, in exact arithmetic
CmpDistQuarter(a, b) == LET d == XSum(a, FNeg(b)) IN CmpScaled(d.man, d.exp, <<1>>, -2)

\* |v - num/den| <= 2^-50: v is the rational num/den up to the rounding of a double
NearRational(v, num, den) ==
    LET d == XSum([sign |-> v.sign, man |-> BMulSmall(v.man, den), exp |-> v.exp],
                  FNeg(FFromInt(num)))
    IN  v.kind = "fin" /\ CmpScaled(d.man, d.exp, BFromNat(den), -50) <= 0

Called == calc_pc \in {"returned", "raised", "reported"}
HasResult == calc_pc \in {"returned", "reported"}
ValidRequest ==
    /\ call.n >= 1
    /\ call.exc.kind = "fin" /\ call.exc.sign = 1
    /\ call.mx \in {2, 5}

\* the raw scaled volume of ingredient i of the result, as line 48 computes it
RawOf(i) ==
    FMul(FMul(result.per[i].v, FFromInt(call.n)),
         FAdd(FFromInt(1), FDiv(call.exc, FFromInt(100))))
\* raw * 2 is k + 0.5 for an integer k >= 0
IsTie(x) == x.kind = "fin" /\ x.sign = 1 /\ FMul(x, FFromInt(2)).exp = -1

\* C1: for every sample count >= 1, every (finite) excess percent >= 0 and
\* every mix factor in {2, 5}, calculate returns without raising, and each of
\* the four master-mix volumes is >= 0 and an integer multiple of 0.5.
C1_ValidRequestSucceeds ==
    (Called /\ ValidRequest) =>
        /\ result.ok
        /\ Len(result.tot) = 4
        /\ \A i \in 1..4 : NonNegative(result.tot[i].v) /\ IsHalfMultiple(result.tot[i].v)

C1_Witness ==
    /\ calc_pc = "returned" /\ ValidRequest
    /\ \E i \in 1..4 : ~IsWhole(result.tot[i].v)

\* C2: for every mix factor outside {2, 5}, whatever the sample count and
\* excess, calculate raises the mix-factor error (never the negative-DDW
\* error) and produces no per-sample, scaled or grand-total value.
C2_InvalidMixRaises ==
    (Called /\ call.mx \notin {2, 5}) =>
        /\ calc_pc = "raised"
        /\ ~result.ok
        /\ result.exc = "ValueError" /\ result.err = MixError
        /\ result.per = <<>> /\ result.tot = <<>>

C2_Witness ==
    calc_pc = "raised" /\ call.mx = 1 /\ call.n >= 1 /\ result.err = MixError

\* C3: for every valid request the grand total is exactly the sum of the
\* four rounded master-mix volumes.
C3_GrandTotalIsSumOfRounded ==
    (HasResult /\ ValidRequest) =>
        Halves(result.grand) =
            Halves(result.tot[1].v) + Halves(result.tot[2].v)
            + Halves(result.tot[3].v) + Halves(result.tot[4].v)

\* a request whose grand total differs from 11 * n * factor and from
\* round_to_half(11 * n * factor)
C3_Witness ==
    /\ HasResult /\ ValidRequest
    /\ LET naive == FMul(FMul(FFromInt(11), FFromInt(call.n)),
                         FAdd(FFromInt(1), FDiv(call.exc, FFromInt(100))))
       IN  /\ result.grand # naive
           /\ result.grand # FDiv(FFromPyInt(PyRound(FMul(naive, FFromInt(2)))), FFromInt(2))

\* C4: for every raw value v >= 0, round_to_half(v) is a value r with 2 * r
\* an integer and |r - v| <= 0.25.
C4_RoundingLaw ==
    (round_pc = "done" /\ NonNegative(raw)) =>
        /\ IsHalfMultiple(rounded)
        /\ CmpDistQuarter(rounded, raw) <= 0

\* a raw value exactly halfway between two multiples of 0.5
C4_Witness ==
    round_pc = "done" /\ IsTie(raw) /\ CmpDistQuarter(rounded, raw) = 0

\* C5: for every valid request, per-sample is DDW = 11 - (12/m + 1),
\* Mix (mX) = 12/m, Primer Fwd = Primer Rev = 0.5 in that order (to the
\* precision of a double), independent of n and e; each master-mix volume is
\* round_to_half(per-sample * n * (1 + e/100)); (8, 10, 2) gives 35.0, 53.0,
\* 4.5, 4.5 and 97.0; (1, 0, 5) gives 7.5, 2.5, 0.5, 0.5 and 11.0; with e = 0
\* and m = 2 the master-mix volumes are per-sample * n.
C5_PerSampleAndScaled ==
    (HasResult /\ ValidRequest) =>
        /\ Len(result.per) = 4 /\ Len(result.tot) = 4
        /\ result.per[1].k = Key("DDW")
        /\ result.per[2].k = MixKey(call.mx)
        /\ result.per[3].k = Key("Primer Fwd")
        /\ result.per[4].k = Key("Primer Rev")
        /\ NearRational(result.per[1].v, 10 * call.mx - 12, call.mx)
        /\ NearRational(result.per[2].v, 12, call.mx)
        /\ result.per[3].v = FFromHalves(1)
        /\ result.per[4].v = FFromHalves(1)
        /\ \A i \in 1..4 :
              /\ result.tot[i].k = result.per[i].k
              /\ result.tot[i].v =
                    FDiv(FFromPyInt(PyRound(FMul(RawOf(i), FFromInt(2)))), FFromInt(2))
        /\ (call.n = 8 /\ call.exc = FFromInt(10) /\ call.mx = 2) =>
              /\ [i \in 1..4 |-> Halves(result.tot[i].v)] = <<70, 106, 9, 9>>
              /\ Halves(result.grand) = 194
        /\ (call.n = 1 /\ call.exc = FZero /\ call.mx = 5) =>
              /\ [i \in 1..4 |-> Halves(result.tot[i].v)] = <<15, 5, 1, 1>>
              /\ Halves(result.grand) = 22
        /\ (call.exc = FZero /\ call.mx = 2) =>
              /\ [i \in 1..4 |-> Halves(result.per[i].v)] = <<8, 12, 1, 1>>
              /\ [i \in 1..4 |-> Halves(result.tot[i].v)] =
                    <<8 * call.n, 12 * call.n, call.n, call.n>>

C5_Witness ==
    /\ calc_pc = "returned"
    /\ call.n = 8 /\ call.exc = FFromInt(10) /\ call.mx = 2
    /\ Halves(result.grand) = 194

\* C8: the report is four heading lines, then one row per ingredient in the
\* order DDW, Mix, Primer Fwd, Primer Rev pairing the ingredient's per-sample
\* volume with its own master-mix volume, then a rule and a total row whose
\* per-sample figure is the constant 11.0 and whose master-mix figure is the
\* grand total passed in.
C8_ReportLayout ==
    (calc_pc = "reported") =>
        /\ Len(report) = 10
        /\ report[1] = [line |-> "title", n |-> call.n, exc |-> call.exc, mx |-> call.mx]
        /\ report[2] = Rule("=")
        /\ report[3].line = "columns"
        /\ report[4] = Rule("-")
        /\ [i \in 1..4 |-> report[4 + i].name] =
              <<Key("DDW"), MixKey(call.mx), Key("Primer Fwd"), Key("Primer Rev")>>
        /\ \A i \in 1..4 :
              /\ report[4 + i].line = "row"
              /\ report[4 + i].name = result.per[i].k
              /\ report[4 + i].per = Fmt1(result.per[i].v)
              /\ \E j \in 1..4 : /\ result.tot[j].k = result.per[i].k
                                 /\ report[4 + i].mm = Fmt1(result.tot[j].v)
        /\ report[9] = Rule("-")
        /\ report[10] = Row(Key("TOTAL VOLUME"), 110, 5 * Halves(result.grand))
        /\ (call.n = 8 /\ call.exc = FFromInt(10) /\ call.mx = 2) =>
              /\ [i \in 1..4 |-> <<report[4 + i].per, report[4 + i].mm>>] =
                    << <<40, 350>>, <<60, 530>>, <<5, 45>>, <<5, 45>> >>
              /\ report[10].mm = 970
        /\ (call.n = 1 /\ call.exc = FZero /\ call.mx = 5) =>
              [i \in 1..4 |-> <<report[4 + i].per, report[4 + i].mm>>] =
                    << <<76, 75>>, <<24, 25>>, <<5, 5>>, <<5, 5>> >>

C8_Witness ==
    /\ calc_pc = "reported" /\ call.mx = 5 /\ call.n >= 1
    /\ report[5].per = 76 /\ report[5].mm # report[5].per

\* C10 as stated: whenever a raw scaled volume is exactly halfway between
\* two multiples of 0.5, the master-mix volume is the larger of the two.
C10_TiesRoundUp ==
    (HasResult /\ ValidRequest) =>
        \A i \in 1..4 : IsTie(RawOf(i)) => FLt(RawOf(i), result.tot[i].v)

\* C10 amended: whenever a raw scaled volume is exactly halfway between two
\* multiples of 0.5, the master-mix volume is the neighbour whose double is
\* even, a whole number of microlitres (1.25 -> 1.0, 1.75 -> 2.0).
C10_TiesRoundToEven ==
    (HasResult /\ ValidRequest) =>
        \A i \in 1..4 : IsTie(RawOf(i)) =>
            /\ IsWhole(result.tot[i].v)
            /\ CmpDistQuarter(result.tot[i].v, RawOf(i)) = 0

\* a tie that is rounded down
C10_Witness ==
    /\ HasResult /\ ValidRequest
    /\ \E i \in 1..4 : IsTie(RawOf(i)) /\ FLt(result.tot[i].v, RawOf(i))

(***************************************************************************)
(* Properties of the command line                                          *)
(***************************************************************************)
Interactive == argv.samples = Absent
SamplesText == IF Interactive THEN answers[1] ELSE argv.samples
ExcessText == IF Interactive THEN answers[2] ELSE argv.excess
MixText == IF Interactive THEN answers[3] ELSE argv.mix
\* the request the user gave is a valid one: a sample count >= 1, a finite
\* excess >= 0, a mix factor of 2 or 5, an omitted value standing for its default
CliRequestValid ==
    /\ \/ Interactive /\ SamplesText = Absent
       \/ SamplesText.form = "int" /\ SamplesText.v >= 1
    /\ \/ ExcessText = Absent
       \/ ExcessText.form \in {"int", "half"} /\ ExcessText.v >= 0
    /\ \/ MixText = Absent
       \/ MixText.form = "int" /\ MixText.v \in {2, 5}
ReportPrinted == \E i \in 1..Len(stdout) : stdout[i].out = "report"
\* run_cli_mode has run to its end
RanCliMode == cli_pc = "exited" /\ args # NoArgs

\* C6 as stated: a command-line run through run_cli_mode exits with status 0
\* only when the inputs are valid; for any invalid input (sample count < 1,
\* excess < 0, a non-numeric value, a mix factor outside {2, 5}) it exits
\* with status 1 and neither prints nor saves a report.
C6_ExitStatusReflectsValidity ==
    RanCliMode =>
        /\ exit_status = 0 => CliRequestValid
        /\ ~CliRequestValid => (exit_status = 1 /\ ~ReportPrinted /\ files = <<>>)

(***************************************************************************)
(* Properties of the form                                                  *)
(***************************************************************************)
FormRequest == get_inputs(var_samples, var_excess, var_mix)
\* the update_calc triggered by the latest change ended in an error
LastUpdateFailed == FormRequest = <<>> \/ ~Calculated[FormRequest].r.ok
ShowsValidTotal ==
    lbl_grand_total.text = "total" /\ lbl_grand_total.foreground = "#0055aa"

\* C7 as stated: whenever the most recent update_calc ended in an error, the
\* table is empty, the grand-total label does not show a total as valid, and
\* an error message is shown.
C7_ErrorClearsResults ==
    LastUpdateFailed => (tree = <<>> /\ ~ShowsValidTotal /\ lbl_status # "")

\* C9 as stated: whatever copy-to-clipboard or save emits is the formatted
\* report of the inputs currently in the form; with invalid inputs nothing
\* is emitted.
C9_ExportsCurrentReport ==
    [][ /\ clipboard' # clipboard =>
            (~LastUpdateFailed /\ clipboard' = Calculated[FormRequest].text)
        /\ files' # files =>
            (~LastUpdateFailed /\ files' = Calculated[FormRequest].text) ]_vars
====
